---- MODULE Spec2Model ----
(***************************************************************************)
(* ldns-testns (examples/nsd-test/ldns-testns.c): a DNS daemon that reads  *)
(* a data file of canned entries and answers each query with the first     *)
(* entry that matches it.                                                  *)
(*                                                                         *)
(* Two specifications:                                                     *)
(*   Spec       main() from its start: read_datafile() line by line, then  *)
(*              the creation and binding of the sockets.                   *)
(*   SpecServe  the service loop of main(), started with an entry list     *)
(*              that read_datafile() returns for a data file.              *)
(*                                                                         *)
(* A line of the data file is kept as the sequence of keywords that        *)
(* str_keyword() consumes from it (no keyword of one chain is a prefix of  *)
(* another, so the split is unique); a text no keyword matches is a token  *)
(* outside the vocabulary.  Lines obey the documented maximum line length  *)
(* MAX_LINE, so one fgets() call reads one line.                           *)
(***************************************************************************)
EXTENDS Integers, Sequences, FiniteSets, TLC

\* ------------------------------------------------------------------ bounds

\* lines read from a data file in Spec
MaxLines == 6
\* requests served in SpecServe
MaxRequests == 2

\* ------------------------------------------------------------- constants

INBUF_SIZE == 4096
transport_any == 0
transport_udp == 1
transport_tcp == 2

LDNS_SECTION_QUESTION == 0
LDNS_SECTION_ANSWER == 1
LDNS_SECTION_AUTHORITY == 2
LDNS_SECTION_ADDITIONAL == 3

LDNS_PACKET_QUERY == 0
LDNS_PACKET_IQUERY == 1
LDNS_PACKET_STATUS == 2
LDNS_PACKET_NOTIFY == 4
LDNS_PACKET_UPDATE == 5

\* ------------------------------------------------------------ characters

\* tolower() on a character code
ToLower(c) == IF c >= 65 /\ c <= 90 THEN c + 32 ELSE c

\* a label is a sequence of character codes, a domain name a sequence of labels
LowerLabel(l) == [i \in 1..Len(l) |-> ToLower(l[i])]

\* ldns_dname_compare(a, b) == 0: label by label, letters compared without case
ldns_dname_equal(a, b) ==
    /\ Len(a) = Len(b)
    /\ \A i \in 1..Len(a) : LowerLabel(a[i]) = LowerLabel(b[i])

\* An unsigned 32-bit value is kept as its two 16-bit halves <<high, low>>.
\* strtol() and atoi() in base 10 over a text of decimal digits: the value
\* modulo 2^32, digit by digit
RECURSIVE DecimalValue(_)
DecimalValue(ds) ==
    IF ds = <<>> THEN <<0, 0>>
    ELSE LET v == DecimalValue(SubSeq(ds, 1, Len(ds) - 1))
             lo == 10 * v[2] + ds[Len(ds)]
         IN <<(10 * v[1] + lo \div 65536) % 65536, lo % 65536>>

\* (uint16_t)atoi(parse), line 333: the low 16 bits
atoi_uint16(ds) == DecimalValue(ds)[2]

\* (uint32_t)strtol(parse, &parse, 10), line 167
strtol_uint32(ds) == DecimalValue(ds)

\* ------------------------------------------------------------- messages

\* ldns_pkt_new(): an empty message, every header field zero
ldns_pkt_new ==
    [id |-> 0, opcode |-> LDNS_PACKET_QUERY, rcode |-> 0,
     qr |-> FALSE, aa |-> FALSE, tc |-> FALSE, rd |-> FALSE,
     cd |-> FALSE, ra |-> FALSE, ad |-> FALSE,
     question |-> <<>>, answer |-> <<>>, authority |-> <<>>, additional |-> <<>>]

\* ldns_pkt_push_rr(pkt, section, rr)
ldns_pkt_push_rr(pkt, section, rr) ==
    IF section = LDNS_SECTION_QUESTION
        THEN [pkt EXCEPT !.question = Append(@, rr)]
    ELSE IF section = LDNS_SECTION_ANSWER
        THEN [pkt EXCEPT !.answer = Append(@, rr)]
    ELSE IF section = LDNS_SECTION_AUTHORITY
        THEN [pkt EXCEPT !.authority = Append(@, rr)]
    ELSE [pkt EXCEPT !.additional = Append(@, rr)]

\* ldns_rr_new_frm_str(&n, parse, default_ttl, origin, &prev_rr): the record of
\* a record line; a relative owner is completed with the origin, an omitted
\* owner is the previous one, an omitted TTL (-1) is the default TTL
ldns_rr_new_frm_str(txt, default_ttl, origin, prev) ==
    LET own == IF txt.owner = <<>> THEN prev
               ELSE IF txt.absolute THEN txt.owner
               ELSE txt.owner \o origin
    IN [ok |-> txt.ok,
        rr |-> [owner |-> own,
                ttl |-> IF txt.ttl < 0 THEN default_ttl ELSE txt.ttl,
                type |-> txt.type,
                rdfs |-> txt.rdfs],
        prev |-> own]

\* ldns_str2rdf_dname(origin, parse) in get_origin(): the name, or a failure
get_origin(txt) == [ok |-> txt.ok, origin |-> IF txt.ok THEN txt.name ELSE <<>>]

\* ------------------------------------------------------------- entries

new_entry ==
    [match_opcode |-> FALSE, match_qtype |-> FALSE, match_qname |-> FALSE,
     match_serial |-> FALSE, ixfr_soa_serial |-> <<0, 0>>,
     match_transport |-> transport_any,
     reply |-> ldns_pkt_new, copy_id |-> FALSE]

\* a token of a MATCH line: a keyword, or serial with its separator and literal
Kw(k) == [kw |-> k, sep |-> "", num |-> <<>>]
Serial(s, ds) == [kw |-> "serial", sep |-> s, num |-> ds]

\* matchline() that keeps the transport a line names first
RECURSIVE matchline_first_transport(_, _)
matchline_first_transport(toks, e) ==
    IF toks = <<>> THEN [e |-> e, err |-> FALSE]
    ELSE LET t == Head(toks) IN
        IF t.kw \in {"opcode", "qtype", "qname"}
            THEN matchline_first_transport(Tail(toks),
                     [e EXCEPT !.match_opcode = @ \/ t.kw = "opcode",
                               !.match_qtype = @ \/ t.kw = "qtype",
                               !.match_qname = @ \/ t.kw = "qname"])
        ELSE IF t.kw \in {"UDP", "TCP"}
            THEN matchline_first_transport(Tail(toks),
                     IF e.match_transport # transport_any THEN e
                     ELSE [e EXCEPT !.match_transport =
                              IF t.kw = "UDP" THEN transport_udp ELSE transport_tcp])
        ELSE IF t.kw = "serial" THEN
            IF t.sep # "=" /\ t.sep # ":"
                THEN [e |-> [e EXCEPT !.match_serial = TRUE], err |-> TRUE]
            ELSE matchline_first_transport(Tail(toks),
                     [e EXCEPT !.match_serial = TRUE,
                               !.ixfr_soa_serial = strtol_uint32(t.num)])
        ELSE [e |-> e, err |-> TRUE]

\* matchline(): the tokens left to right; r.err is the call of error()
RECURSIVE matchline(_, _)
matchline(toks, e) ==
    IF toks = <<>> THEN [e |-> e, err |-> FALSE]
    ELSE LET t == Head(toks) IN
        IF t.kw = "opcode" THEN matchline(Tail(toks), [e EXCEPT !.match_opcode = TRUE])
        ELSE IF t.kw = "qtype" THEN matchline(Tail(toks), [e EXCEPT !.match_qtype = TRUE])
        ELSE IF t.kw = "qname" THEN matchline(Tail(toks), [e EXCEPT !.match_qname = TRUE])
        ELSE IF t.kw = "UDP"
            THEN matchline(Tail(toks), [e EXCEPT !.match_transport = transport_udp])
        ELSE IF t.kw = "TCP"
            THEN matchline(Tail(toks), [e EXCEPT !.match_transport = transport_tcp])
        ELSE IF t.kw = "serial" THEN
            IF t.sep # "=" /\ t.sep # ":"
                THEN [e |-> [e EXCEPT !.match_serial = TRUE], err |-> TRUE]
            ELSE matchline(Tail(toks),
                     [e EXCEPT !.match_serial = TRUE,
                               !.ixfr_soa_serial = strtol_uint32(t.num)])
        ELSE [e |-> e, err |-> TRUE]

ReplyOpcodes ==
    [QUERY |-> LDNS_PACKET_QUERY, IQUERY |-> LDNS_PACKET_IQUERY,
     STATUS |-> LDNS_PACKET_STATUS, NOTIFY |-> LDNS_PACKET_NOTIFY,
     UPDATE |-> LDNS_PACKET_UPDATE]

ReplyRcodes ==
    [NOERROR |-> 0, FORMERR |-> 1, SERVFAIL |-> 2, NXDOMAIN |-> 3, NOTIMPL |-> 4,
     YXDOMAIN |-> 6, YXRRSET |-> 7, NXRRSET |-> 8, NOTAUTH |-> 9, NOTZONE |-> 10]

\* replyline(): opcode names, rcode names, flags
RECURSIVE replyline(_, _)
replyline(toks, e) ==
    IF toks = <<>> THEN [e |-> e, err |-> FALSE]
    ELSE LET t == Head(toks).kw IN
        IF t \in DOMAIN ReplyOpcodes
            THEN replyline(Tail(toks), [e EXCEPT !.reply.opcode = ReplyOpcodes[t]])
        ELSE IF t \in DOMAIN ReplyRcodes
            THEN replyline(Tail(toks), [e EXCEPT !.reply.rcode = ReplyRcodes[t]])
        ELSE IF t = "QR" THEN replyline(Tail(toks), [e EXCEPT !.reply.qr = TRUE])
        ELSE IF t = "AA" THEN replyline(Tail(toks), [e EXCEPT !.reply.aa = TRUE])
        ELSE IF t = "TC" THEN replyline(Tail(toks), [e EXCEPT !.reply.tc = TRUE])
        ELSE IF t = "RD" THEN replyline(Tail(toks), [e EXCEPT !.reply.rd = TRUE])
        ELSE IF t = "CD" THEN replyline(Tail(toks), [e EXCEPT !.reply.cd = TRUE])
        ELSE IF t = "RA" THEN replyline(Tail(toks), [e EXCEPT !.reply.ra = TRUE])
        ELSE IF t = "AD" THEN replyline(Tail(toks), [e EXCEPT !.reply.ad = TRUE])
        ELSE [e |-> e, err |-> TRUE]

\* adjustline(): copy_id
RECURSIVE adjustline(_, _)
adjustline(toks, e) ==
    IF toks = <<>> THEN [e |-> e, err |-> FALSE]
    ELSE IF Head(toks).kw = "copy_id"
        THEN adjustline(Tail(toks), [e EXCEPT !.copy_id = TRUE])
    ELSE [e |-> e, err |-> TRUE]

\* ------------------------------------------------------- read_datafile

\* isendline(c) for the first character after the leading white space:
\* a comment sign, the end of the line, or the end of the text
isendline(c) == c \in {";", "#", "\n", ""}

\* a line of the data file: the character or keyword it starts with and, by
\* keyword, the tokens, decimal text, name or record text that follow
Line(k, ts, n, nm, r) == [kw |-> k, toks |-> ts, num |-> n, name |-> nm, rr |-> r]

NoNum == <<>>
NoName == [ok |-> TRUE, name |-> <<>>]
NoRR == [ok |-> TRUE, owner |-> <<>>, absolute |-> FALSE, ttl |-> -1, type |-> 0, rdfs |-> <<>>]

\* the locals of read_datafile() at its start (lines 291-302); err and errline
\* are the message and the line number that error() prints
rd_start ==
    [list |-> <<>>, current |-> 0, lineno |-> 0, line |-> Line("", <<>>, NoNum, NoName, NoRR),
     add_section |-> LDNS_SECTION_QUESTION, default_ttl |-> 0,
     origin |-> <<>>, prev_rr |-> <<>>, entry_num |-> 0,
     err |-> "", errline |-> 0]

\* error(...) called with the current line number
fatal(s, msg) == [s EXCEPT !.err = msg, !.errline = s.lineno]

\* error() that prints and returns to its caller
error_returns(s) == "read_datafile"

\* lines 104-113: where main() is after the pass that left s: error() has
\* printed the message and called exit()
error(s) == IF s.err # "" THEN "exit" ELSE "read_datafile"

\* count_line() that does not count comment and empty lines
count_line_skip_blank(s, ln) ==
    IF isendline(ln.kw) THEN [s EXCEPT !.line = ln]
    ELSE [s EXCEPT !.lineno = @ + 1, !.line = ln]

\* line 311: lineno ++ for every line fgets() returns
count_line(s, ln) == [s EXCEPT !.lineno = @ + 1, !.line = ln]

\* entry_begin() without the test of line 319
entry_begin_nested(s) ==
    [s EXCEPT !.list = Append(@, new_entry), !.current = Len(s.list) + 1]

\* lines 318-328: ENTRY_BEGIN
entry_begin(s) ==
    IF s.current # 0 THEN fatal(s, "previous entry does not ENTRY_END")
    ELSE [s EXCEPT !.list = Append(@, new_entry), !.current = Len(s.list) + 1]

\* lines 329-331: $ORIGIN
origin_line(s, ln) ==
    LET r == get_origin(ln.name) IN
    IF r.ok THEN [s EXCEPT !.origin = r.origin]
    ELSE fatal([s EXCEPT !.origin = <<>>], "origin")

\* lines 332-335: $TTL
ttl_line(s, ln) == [s EXCEPT !.default_ttl = atoi_uint16(ln.num)]

\* lines 348-357: SECTION
section_line(s, ln) ==
    LET t == IF ln.toks = <<>> THEN "" ELSE Head(ln.toks).kw IN
    IF t = "QUESTION" THEN [s EXCEPT !.add_section = LDNS_SECTION_QUESTION]
    ELSE IF t = "ANSWER" THEN [s EXCEPT !.add_section = LDNS_SECTION_ANSWER]
    ELSE IF t = "AUTHORITY" THEN [s EXCEPT !.add_section = LDNS_SECTION_AUTHORITY]
    ELSE IF t = "ADDITIONAL" THEN [s EXCEPT !.add_section = LDNS_SECTION_ADDITIONAL]
    ELSE fatal(s, "bad section")

\* entry_end() that also puts the default TTL and the origin back
entry_end_reset(s) ==
    [s EXCEPT !.current = 0, !.entry_num = @ + 1, !.default_ttl = 0, !.origin = <<>>]

\* entry_end() that closes the entry without counting it
entry_end_uncounted(s) == [s EXCEPT !.current = 0]

\* lines 358-360: ENTRY_END
entry_end(s) == [s EXCEPT !.current = 0, !.entry_num = @ + 1]

\* lines 361-370: a record line
rr_line(s, ln) ==
    LET r == ldns_rr_new_frm_str(ln.rr, s.default_ttl, s.origin, s.prev_rr) IN
    IF ~r.ok THEN fatal(s, "bad record")
    ELSE [s EXCEPT !.prev_rr = r.prev,
                   !.list[s.current].reply =
                        ldns_pkt_push_rr(@, s.add_section, r.rr)]

\* a directive interpreter applied to the open entry
directive(s, r, msg) ==
    LET t == [s EXCEPT !.list[s.current] = r.e] IN
    IF r.err THEN fatal(t, msg) ELSE t

\* lines 337-370: the lines that need an open entry
inside_entry(s, ln) ==
    IF s.current = 0 THEN fatal(s, "expected ENTRY_BEGIN")
    ELSE IF ln.kw = "MATCH"
        THEN directive(s, matchline(ln.toks, s.list[s.current]), "could not parse MATCH")
    ELSE IF ln.kw = "REPLY"
        THEN directive(s, replyline(ln.toks, s.list[s.current]), "could not parse REPLY")
    ELSE IF ln.kw = "ADJUST"
        THEN directive(s, adjustline(ln.toks, s.list[s.current]), "could not parse ADJUST")
    ELSE IF ln.kw = "SECTION" THEN section_line(s, ln)
    ELSE IF ln.kw = "ENTRY_END" THEN entry_end(s)
    ELSE rr_line(s, ln)

\* lines 308-373: one pass of the loop of read_datafile() over the line ln
read_line(s0, ln) ==
    LET s == count_line(s0, ln) IN
    IF isendline(ln.kw) THEN s
    ELSE IF ln.kw = "ENTRY_BEGIN" THEN entry_begin(s)
    ELSE IF ln.kw = "$ORIGIN" THEN origin_line(s, ln)
    ELSE IF ln.kw = "$TTL" THEN ttl_line(s, ln)
    ELSE inside_entry(s, ln)

\* read_datafile() over a whole file, up to the first fatal error
RECURSIVE read_lines(_, _)
read_lines(s, f) ==
    IF f = <<>> \/ s.err # "" THEN s
    ELSE read_lines(read_line(s, Head(f)), Tail(f))

\* ------------------------------------------------------------ matching

\* get_qtype(): the type of the first question, 0 when there is none
get_qtype(p) == IF p.question = <<>> THEN 0 ELSE p.question[1].type

\* get_owner(): the owner of the first question, NULL when there is none
get_owner(p) ==
    IF p.question = <<>> THEN [null |-> TRUE, name |-> <<>>]
    ELSE [null |-> FALSE, name |-> p.question[1].owner]

\* get_serial(): rdata field 2 of the first authority record, 0 without one
get_serial(p) ==
    IF p.authority = <<>> THEN <<0, 0>>
    ELSE IF Len(p.authority[1].rdfs) < 3 THEN <<0, 0>>
    ELSE p.authority[1].rdfs[3]

\* entry_matches() without the transport test of line 431
entry_matches_any_transport(p, query_pkt, transport) ==
    /\ ~(p.match_opcode /\ query_pkt.opcode # p.reply.opcode)
    /\ ~(p.match_qtype /\ get_qtype(query_pkt) # get_qtype(p.reply))
    /\ ~(p.match_qname /\
            (\/ get_owner(query_pkt).null
             \/ get_owner(p.reply).null
             \/ ~ldns_dname_equal(get_owner(query_pkt).name, get_owner(p.reply).name)))
    /\ ~(p.match_serial /\ get_serial(p.reply) # p.ixfr_soa_serial)

\* entry_matches() with the serial taken from the query at line 428
entry_matches_query_serial(p, query_pkt, transport) ==
    /\ ~(p.match_opcode /\ query_pkt.opcode # p.reply.opcode)
    /\ ~(p.match_qtype /\ get_qtype(query_pkt) # get_qtype(p.reply))
    /\ ~(p.match_qname /\
            (\/ get_owner(query_pkt).null
             \/ get_owner(p.reply).null
             \/ ~ldns_dname_equal(get_owner(query_pkt).name, get_owner(p.reply).name)))
    /\ ~(p.match_serial /\ get_serial(query_pkt) # p.ixfr_soa_serial)
    /\ ~(p.match_transport # transport_any /\ p.match_transport # transport)

\* entry_matches() whose qname test passes when neither message has a question
entry_matches_both_missing(p, query_pkt, transport) ==
    /\ ~(p.match_opcode /\ query_pkt.opcode # p.reply.opcode)
    /\ ~(p.match_qtype /\ get_qtype(query_pkt) # get_qtype(p.reply))
    /\ ~(p.match_qname /\
            IF get_owner(query_pkt).null \/ get_owner(p.reply).null
                THEN get_owner(query_pkt).null # get_owner(p.reply).null
            ELSE ~ldns_dname_equal(get_owner(query_pkt).name, get_owner(p.reply).name))
    /\ ~(p.match_serial /\ get_serial(p.reply) # p.ixfr_soa_serial)
    /\ ~(p.match_transport # transport_any /\ p.match_transport # transport)

\* lines 414-433: the body of the loop of find_match(); TRUE when no test
\* of the entry p says continue
entry_matches(p, query_pkt, transport) ==
    /\ ~(p.match_opcode /\ query_pkt.opcode # p.reply.opcode)
    /\ ~(p.match_qtype /\ get_qtype(query_pkt) # get_qtype(p.reply))
    /\ ~(p.match_qname /\
            (\/ get_owner(query_pkt).null
             \/ get_owner(p.reply).null
             \/ ~ldns_dname_equal(get_owner(query_pkt).name, get_owner(p.reply).name)))
    /\ ~(p.match_serial /\ get_serial(p.reply) # p.ixfr_soa_serial)
    /\ ~(p.match_transport # transport_any /\ p.match_transport # transport)

\* find_from() that keeps scanning and returns the last entry that matches
RECURSIVE find_from_last(_, _, _, _)
find_from_last(list, i, query_pkt, transport) ==
    IF i > Len(list) THEN 0
    ELSE LET r == find_from_last(list, i + 1, query_pkt, transport) IN
        IF r # 0 THEN r
        ELSE IF entry_matches(list[i], query_pkt, transport) THEN i
        ELSE 0

\* the loop of find_match() from the entry at position i on
RECURSIVE find_from(_, _, _, _)
find_from(list, i, query_pkt, transport) ==
    IF i > Len(list) THEN 0
    ELSE IF entry_matches(list[i], query_pkt, transport) THEN i
    ELSE find_from(list, i + 1, query_pkt, transport)

\* find_match(): the position of the entry returned, 0 for NULL
find_match(list, query_pkt, transport) == find_from(list, 1, query_pkt, transport)

\* adjust_answer() that copies the id whatever copy_id is
adjust_answer_always(match, query_pkt) == [match.reply EXCEPT !.id = query_pkt.id]

\* lines 447-449 of get_answer(): the clone of the reply, the id copied
adjust_answer(match, query_pkt) ==
    IF match.copy_id THEN [match.reply EXCEPT !.id = query_pkt.id]
    ELSE match.reply

\* get_answer() that adjusts the reply of the entry itself, without
\* ldns_pkt_clone()
get_answer_in_place(list, query_pkt, transport) ==
    LET m == find_match(list, query_pkt, transport) IN
    IF m = 0 THEN [null |-> TRUE, match |-> 0, pkt |-> ldns_pkt_new, list |-> list]
    ELSE [null |-> FALSE, match |-> m, pkt |-> adjust_answer(list[m], query_pkt),
          list |-> [list EXCEPT ![m].reply = adjust_answer(list[m], query_pkt)]]

\* get_answer(): NULL without a match; the answer is a clone
\* (ldns_pkt_clone(), line 447), so the list is left as it was
get_answer(list, query_pkt, transport) ==
    LET m == find_match(list, query_pkt, transport) IN
    IF m = 0 THEN [null |-> TRUE, match |-> 0, pkt |-> ldns_pkt_new, list |-> list]
    ELSE [null |-> FALSE, match |-> m, pkt |-> adjust_answer(list[m], query_pkt),
          list |-> list]

\* the wire size of a record list: owner, type, class and, outside the
\* question section, TTL, length and rdata
RECURSIVE NameSize(_)
NameSize(n) == IF n = <<>> THEN 1 ELSE 1 + Len(Head(n)) + NameSize(Tail(n))

\* the rdata of a record: 32-bit fields, or, for a TXT record (type 16),
\* fields <<k, n>> that stand for k character strings of n bytes each, every
\* string with its length byte
RECURSIVE RdataSize(_, _)
RdataSize(type, rdfs) ==
    IF rdfs = <<>> THEN 0
    ELSE (IF type = 16 THEN Head(rdfs)[1] * (1 + Head(rdfs)[2]) ELSE 4)
         + RdataSize(type, Tail(rdfs))

RECURSIVE SectionSize(_, _)
SectionSize(rrs, isq) ==
    IF rrs = <<>> THEN 0
    ELSE NameSize(Head(rrs).owner) + 4
         + (IF isq THEN 0 ELSE 6 + RdataSize(Head(rrs).type, Head(rrs).rdfs))
         + SectionSize(Tail(rrs), isq)

\* ldns_pkt2wire(&outbuf, answer_pkt, &answer_size), line 481: the outcomes.
\* For a message: its bytes.  handle_query() also passes the NULL that
\* get_answer() returns without a match; the encoder reads the header of
\* the message it is given, so for NULL the call either fails with a status
\* or ends the process.
ldns_pkt2wire(answer) ==
    IF answer.null THEN {[status |-> "error", size |-> 0, pkt |-> ldns_pkt_new],
                         [status |-> "crash", size |-> 0, pkt |-> ldns_pkt_new]}
    ELSE {[status |-> "ok",
           size |-> 12 + SectionSize(answer.pkt.question, TRUE)
                       + SectionSize(answer.pkt.answer, FALSE)
                       + SectionSize(answer.pkt.authority, FALSE)
                       + SectionSize(answer.pkt.additional, FALSE),
           pkt |-> answer.pkt]}

\* handle_query() that counts the query before it decodes it
handle_query_count_first(wire, list, cnt, transport) ==
    IF ~wire.ok
        THEN {[null |-> TRUE, crash |-> FALSE, count |-> cnt + 1, matched |-> -1,
               size |-> 0, pkt |-> ldns_pkt_new, entries |-> list]}
    ELSE LET a == get_answer(list, wire.pkt, transport) IN
        {[null |-> w.status # "ok", crash |-> w.status = "crash",
          count |-> cnt + 1, matched |-> a.match,
          size |-> w.size, pkt |-> w.pkt, entries |-> a.list] : w \in ldns_pkt2wire(a)}

\* handle_query(): the outcomes for the bytes of a request (wire.ok: they
\* decode, ldns_wire2pkt() gives wire.pkt).  null: no buffer is returned;
\* count: the counter after ++(*count); matched: what find_match() returned,
\* -1 when it was not called; entries: the list after the call
handle_query(wire, list, cnt, transport) ==
    IF ~wire.ok
        THEN {[null |-> TRUE, crash |-> FALSE, count |-> cnt, matched |-> -1,
               size |-> 0, pkt |-> ldns_pkt_new, entries |-> list]}
    ELSE LET a == get_answer(list, wire.pkt, transport) IN
        {[null |-> w.status # "ok", crash |-> w.status = "crash",
          count |-> cnt + 1, matched |-> a.match,
          size |-> w.size, pkt |-> w.pkt, entries |-> a.list] : w \in ldns_pkt2wire(a)}

\* ------------------------------------------------------------- state

VARIABLES
    pc,         \* where main() is: "read_datafile", "socket", "bind", "select",
                \* "tcp_readlen", "tcp_readpayload" (read_n_bytes() about to
                \* call read()), "tcp_readlen_eof", "tcp_readpayload_eof"
                \* (read() returned 0), "exit" (error()), "crash"
    rd,         \* the locals of read_datafile()
    filepos,    \* lines of the data file that fgets() has returned
    entries,    \* main(): the list read_datafile() returned
    socks,      \* main(): the sockets created
    count,      \* main(): the query sequence counter
    served,     \* requests taken off the sockets so far
    req,        \* the request being handled, or handled last
    matched,    \* find_match() for req: the position of the entry returned,
                \* 0 for NULL, -1 while find_match() has not been called for req
    sent,       \* what was sent or written in answer to req
    conn        \* the connection accept() returned for req: "none", "open",
                \* "eof" (the peer has closed its end), "closed"

vars == <<pc, rd, filepos, entries, socks, count, served, req, matched, sent, conn>>

serve_vars == <<count, served, req, matched, sent, conn>>

\* ---------------------------------------------------- data files (inputs)

NameCom == <<<<99, 111, 109>>>>
LabelWww == <<<<119, 119, 119>>>>
LabelWWW == <<<<87, 87, 87>>>>
NameWwwCom == LabelWww \o NameCom
NameUpperWwwCom == LabelWWW \o NameCom
NameOrg == <<<<111, 114, 103>>>>

Plain(k) == Line(k, <<>>, NoNum, NoName, NoRR)
Toks(k, ts) == Line(k, ts, NoNum, NoName, NoRR)
Ttl(ds) == Line("$TTL", <<>>, ds, NoName, NoRR)
Origin(ok, nm) == Line("$ORIGIN", <<>>, NoNum, [ok |-> ok, name |-> nm], NoRR)
Record(r) == Line("rr", <<>>, NoNum, NoName, r)

\* "www A 10.0.0.1": relative owner, no TTL
RRwwwA == [ok |-> TRUE, owner |-> LabelWww, absolute |-> FALSE, ttl |-> -1,
           type |-> 1, rdfs |-> << <<2560, 1>> >>]
\* "com. 3600 SOA ns.com. root.com. 100 ...": absolute owner, TTL given
RRsoa100 == [ok |-> TRUE, owner |-> NameCom, absolute |-> TRUE, ttl |-> 3600,
             type |-> 6, rdfs |-> << <<0, 1>>, <<0, 2>>, <<0, 100>> >>]
\* "www TXT "a..." ... "a..."": 39 character strings of 255 bytes, a line
\* within MAX_LINE
RRtxt == [ok |-> TRUE, owner |-> LabelWww, absolute |-> FALSE, ttl |-> -1,
          type |-> 16, rdfs |-> << <<39, 255>> >>]
\* a text that is no record
RRbad == [ok |-> FALSE, owner |-> <<>>, absolute |-> FALSE, ttl |-> -1,
          type |-> 0, rdfs |-> <<>>]

\* the lines a data file is made of in Spec
FileLines ==
    { Plain("\n"), Plain(";"),
      Plain("ENTRY_BEGIN"), Plain("ENTRY_END"),
      Origin(TRUE, NameCom), Origin(FALSE, <<>>),
      Ttl(<<3, 0, 0>>), Ttl(<<7, 0, 0, 0, 0>>),
      Toks("MATCH", <<Kw("opcode")>>),
      Toks("MATCH", <<Kw("UDP"), Kw("qname"), Kw("TCP")>>),
      Toks("MATCH", <<Serial("=", <<1, 0, 1>>), Serial(":", <<1, 0, 0>>)>>),
      Toks("MATCH", <<Serial("", <<1, 0, 0>>)>>),
      Toks("REPLY", <<Kw("UPDATE"), Kw("NXDOMAIN"), Kw("NOTIFY"), Kw("SERVFAIL"),
                      Kw("AA"), Kw("AA")>>),
      Toks("REPLY", <<Kw("bogus")>>),
      Toks("ADJUST", <<Kw("copy_id"), Kw("copy_id")>>),
      Toks("ADJUST", <<Kw("bogus")>>),
      Toks("SECTION", <<Kw("QUESTION")>>),
      Toks("SECTION", <<Kw("AUTHORITY")>>),
      Toks("SECTION", <<Kw("bogus")>>),
      Record(RRwwwA), Record(RRsoa100), Record(RRbad) }

\* ------------------------------------------------------------ main()

\* a request: the transport, whether its bytes reached handle_query() (got)
\* and decode (ok) to the message pkt, the length a stream peer declared, and
\* whether a read failed
NoReq == [transport |-> transport_any, got |-> FALSE, ok |-> FALSE, tcplen |-> 0,
          rderr |-> FALSE, pkt |-> ldns_pkt_new]

Init ==
    /\ pc = "read_datafile"
    /\ rd = rd_start
    /\ filepos = 0
    /\ entries = <<>>
    /\ socks = {}
    /\ count = 0
    /\ served = 0
    /\ req = NoReq
    /\ matched = -1
    /\ sent = <<>>
    /\ conn = "none"

\* lines 304-306: fopen() fails and error() ends the process
OpenFails ==
    /\ pc = "read_datafile"
    /\ filepos = 0
    /\ rd' = fatal(rd, "could not open file")
    /\ pc' = error(rd')
    /\ UNCHANGED <<filepos, entries, socks, serve_vars>>

\* lines 308-373: fgets() returns a line and the loop body handles it;
\* error() ends the process
ReadLine ==
    /\ pc = "read_datafile"
    /\ filepos < MaxLines
    /\ \E ln \in FileLines :
        LET s == read_line(rd, ln) IN
        /\ rd' = s
        /\ pc' = error(s)
    /\ filepos' = filepos + 1
    /\ UNCHANGED <<entries, socks, serve_vars>>

\* lines 374-377 and 639: fgets() returns NULL, read_datafile() returns list
ReadEof ==
    /\ pc = "read_datafile"
    /\ entries' = rd.list
    /\ pc' = "socket"
    /\ UNCHANGED <<rd, filepos, socks, serve_vars>>

\* lines 642-651: the two sockets; a failure is error()
MainSocket ==
    /\ pc = "socket"
    /\ \/ socks' = {"udp", "tcp"} /\ pc' = "bind"
       \/ socks' = {} /\ pc' = "exit"
       \/ socks' = {"udp"} /\ pc' = "exit"
    /\ UNCHANGED <<rd, filepos, entries, serve_vars>>

\* lines 653-666: bind() twice, listen(), count = 0; a failure is error()
MainBind ==
    /\ pc = "bind"
    /\ \/ pc' = "select"
       \/ pc' = "exit"
    /\ count' = 0
    /\ UNCHANGED <<rd, filepos, entries, socks, served, req, matched, sent, conn>>

Next == OpenFails \/ ReadLine \/ ReadEof \/ MainSocket \/ MainBind

Spec == Init /\ [][Next]_vars

\* ------------------------------------------------- requests (inputs)

Question(nm, ty) == [owner |-> nm, ttl |-> 0, type |-> ty, rdfs |-> <<>>]
Soa(serial) == [owner |-> NameCom, ttl |-> 0, type |-> 6,
                rdfs |-> << <<0, 1>>, <<0, 2>>, serial >>]

\* the messages the bytes of a request decode to
Query(i, o, q, a) ==
    [ldns_pkt_new EXCEPT !.id = i, !.opcode = o, !.question = q, !.authority = a]

Queries ==
    { Query(5, o, q, <<>>) :
        o \in {LDNS_PACKET_QUERY, LDNS_PACKET_NOTIFY},
        q \in { <<>>, <<Question(NameWwwCom, 1)>>, <<Question(NameUpperWwwCom, 1)>>,
                <<Question(NameOrg, 6)>> } }
    \cup { Query(9, LDNS_PACKET_QUERY, <<Question(NameWwwCom, 1)>>, <<Soa(<<0, 101>>)>>),
           Query(9, LDNS_PACKET_NOTIFY, <<Question(NameWwwCom, 6)>>, <<Soa(<<0, 100>>)>>) }

\* the bytes received: they decode to a message, or they do not
Datagrams ==
    { [ok |-> TRUE, pkt |-> q] : q \in Queries } \cup { [ok |-> FALSE, pkt |-> ldns_pkt_new] }

\* the lengths a stream peer declares
TcpLens == {40, INBUF_SIZE, INBUF_SIZE + 1}

\* the entries of the data files served: ENTRY_BEGIN, at most one MATCH line, a
\* body, ENTRY_END
MatchChoices ==
    { <<>>,
      <<Toks("MATCH", <<Kw("opcode")>>)>>,
      <<Toks("MATCH", <<Kw("qtype")>>)>>,
      <<Toks("MATCH", <<Kw("qname")>>)>>,
      <<Toks("MATCH", <<Kw("TCP")>>)>>,
      <<Toks("MATCH", <<Serial("=", <<1, 0, 0>>)>>)>>,
      <<Toks("MATCH", <<Kw("opcode"), Serial(":", <<0>>)>>)>>,
      <<Toks("MATCH", <<Kw("qtype"), Kw("qname"), Kw("UDP")>>)>> }

\* the REPLY and ADJUST lines and the records of an entry
BodyChoices ==
    { <<>>,
      <<Toks("REPLY", <<Kw("NOTIFY"), Kw("QR")>>),
        Toks("ADJUST", <<Kw("copy_id")>>),
        Toks("SECTION", <<Kw("QUESTION")>>), Record(RRwwwA)>>,
      <<Toks("SECTION", <<Kw("QUESTION")>>), Record(RRwwwA),
        Toks("SECTION", <<Kw("AUTHORITY")>>), Record(RRsoa100)>> }

\* an entry whose answer section holds seven TXT records
BigBlock ==
    <<Plain("ENTRY_BEGIN"), Toks("SECTION", <<Kw("ANSWER")>>)>>
    \o [i \in 1..7 |-> Record(RRtxt)] \o <<Plain("ENTRY_END")>>

EntryBlocks ==
    { <<Plain("ENTRY_BEGIN")>> \o m \o b \o <<Plain("ENTRY_END")>> :
        m \in MatchChoices, b \in BodyChoices }
    \cup {BigBlock}

ServeFiles ==
    { <<Origin(TRUE, NameCom)>> \o b : b \in EntryBlocks }
    \cup { <<Origin(TRUE, NameCom)>> \o b1 \o b2 : b1 \in EntryBlocks, b2 \in EntryBlocks }

\* ------------------------------------------------------ the service loop

\* main() at line 668 after read_datafile() has read the file f
InitServe ==
    \E f \in ServeFiles :
        /\ rd = read_lines(rd_start, f)
        /\ rd.err = ""
        /\ filepos = Len(f)
        /\ entries = rd.list
    /\ pc = "select"
    /\ socks = {"udp", "tcp"}
    /\ count = 0
    /\ served = 0
    /\ req = NoReq
    /\ matched = -1
    /\ sent = <<>>
    /\ conn = "none"

Chunk(k, n, p) == [kind |-> k, len |-> n, pkt |-> p]

\* handle_udp(): recvfrom(), handle_query(), sendto()
HandleUdp ==
    /\ pc = "select"
    /\ served < MaxRequests
    /\ served' = served + 1
    /\ conn' = "none"
    /\ \/ \* recvfrom() fails, lines 506-509
          /\ req' = [NoReq EXCEPT !.transport = transport_udp, !.rderr = TRUE]
          /\ UNCHANGED <<pc, count, entries>>
          /\ matched' = -1
          /\ sent' = <<>>
       \/ \E d \in Datagrams : \E r \in handle_query(d, entries, count, transport_udp) :
          /\ req' = [NoReq EXCEPT !.transport = transport_udp, !.got = TRUE,
                                  !.ok = d.ok, !.pkt = d.pkt]
          /\ count' = r.count
          /\ matched' = r.matched
          /\ entries' = r.entries
          /\ pc' = IF r.crash THEN "crash" ELSE pc
          /\ \/ sent' = IF r.null THEN <<>> ELSE <<Chunk("datagram", r.size, r.pkt)>>
             \/ \* sendto() fails, line 518
                sent' = <<>>
    /\ UNCHANGED <<rd, filepos, socks>>

\* handle_tcp(), lines 565-570: accept()
HandleTcpAccept ==
    /\ pc = "select"
    /\ served < MaxRequests
    /\ served' = served + 1
    /\ req' = [NoReq EXCEPT !.transport = transport_tcp]
    /\ matched' = -1
    /\ sent' = <<>>
    /\ \/ conn' = "open" /\ pc' = "tcp_readlen"
       \/ conn' = "none" /\ pc' = pc
    /\ UNCHANGED <<rd, filepos, entries, socks, count>>

\* handle_tcp(), lines 573-580: the length prefix is read, or read() fails and
\* tcplen keeps the value the stack held; a length of INBUF_SIZE or more
\* closes the connection
TcpReadLen ==
    /\ pc = "tcp_readlen"
    /\ conn = "open"
    /\ \E n \in TcpLens, e \in BOOLEAN :
        /\ req' = [req EXCEPT !.tcplen = n, !.rderr = e]
        /\ IF n >= INBUF_SIZE
             THEN conn' = "closed" /\ pc' = "select"
             ELSE conn' = conn /\ pc' = "tcp_readpayload"
    /\ UNCHANGED <<rd, filepos, entries, socks, count, served, matched, sent>>

\* handle_tcp(), lines 581-596: the payload is read, or read() fails and inbuf
\* keeps what the stack held; handle_query(); the prefix and the answer are
\* written, each unless its write() fails; close()
TcpReadPayload ==
    /\ pc = "tcp_readpayload"
    /\ conn = "open"
    /\ \E d \in Datagrams, e \in BOOLEAN :
       \E r \in handle_query(d, entries, count, transport_tcp) :
        /\ req' = [req EXCEPT !.got = TRUE, !.ok = d.ok, !.pkt = d.pkt,
                            !.rderr = req.rderr \/ e]
        /\ count' = r.count
        /\ matched' = r.matched
        /\ entries' = r.entries
        /\ pc' = IF r.crash THEN "crash" ELSE "select"
        /\ conn' = IF r.crash THEN conn ELSE "closed"
        /\ IF r.null THEN sent' = <<>>
           ELSE \E wp \in BOOLEAN, wa \in BOOLEAN :
                sent' = (IF wp THEN <<Chunk("prefix", r.size % 65536, ldns_pkt_new)>>
                         ELSE <<>>)
                        \o (IF wa THEN <<Chunk("answer", r.size, r.pkt)>> ELSE <<>>)
    /\ UNCHANGED <<rd, filepos, socks, served>>

\* the peer closes the stream before it has sent the prefix or the payload
TcpPeerClose ==
    /\ pc \in {"tcp_readlen", "tcp_readpayload"}
    /\ conn = "open"
    /\ conn' = "eof"
    /\ UNCHANGED <<pc, rd, filepos, entries, socks, count, served, req, matched, sent>>

\* read_n_bytes(), lines 531-536: at the end of the stream read() returns 0,
\* which is no error, and count += 0
TcpReadEof ==
    /\ pc \in {"tcp_readlen", "tcp_readpayload"}
    /\ conn = "eof"
    /\ pc = "tcp_readpayload" => req.tcplen > 0
    /\ pc' = IF pc = "tcp_readlen" THEN "tcp_readlen_eof" ELSE "tcp_readpayload_eof"
    /\ UNCHANGED <<rd, filepos, entries, socks, count, served, req, matched, sent, conn>>

\* read_n_bytes(), line 530: count < sz still holds and read() is called again
TcpReadAgain ==
    /\ pc \in {"tcp_readlen_eof", "tcp_readpayload_eof"}
    /\ pc' = IF pc = "tcp_readlen_eof" THEN "tcp_readlen" ELSE "tcp_readpayload"
    /\ UNCHANGED <<rd, filepos, entries, socks, count, served, req, matched, sent, conn>>

NextServe ==
    \/ HandleUdp
    \/ HandleTcpAccept
    \/ TcpReadLen
    \/ TcpReadPayload
    \/ TcpPeerClose
    \/ TcpReadEof
    \/ TcpReadAgain

SpecServe == InitServe /\ [][NextServe]_vars

\* one thread runs the loop: a step that is possible is taken
SpecServeFair == SpecServe /\ WF_vars(NextServe)

\* ------------------------------------------------------------ claims

\* the active predicates of the entry e that the message q, arrived on the
\* transport t, does not satisfy
ViolatedPredicates(e, q, t) ==
    { n \in {"opcode", "qtype", "qname", "serial", "transport"} :
        \/ n = "opcode" /\ e.match_opcode /\ q.opcode # e.reply.opcode
        \/ n = "qtype" /\ e.match_qtype
            /\ (IF q.question = <<>> THEN 0 ELSE q.question[1].type)
                # (IF e.reply.question = <<>> THEN 0 ELSE e.reply.question[1].type)
        \/ n = "qname" /\ e.match_qname
            /\ (\/ q.question = <<>>
                \/ e.reply.question = <<>>
                \/ ~ldns_dname_equal(q.question[1].owner, e.reply.question[1].owner))
        \/ n = "serial" /\ e.match_serial
            /\ (IF e.reply.authority = <<>> THEN <<0, 0>>
                ELSE IF Len(e.reply.authority[1].rdfs) < 3 THEN <<0, 0>>
                ELSE e.reply.authority[1].rdfs[3]) # e.ixfr_soa_serial
        \/ n = "transport" /\ e.match_transport # transport_any /\ e.match_transport # t }

ActivePredicates(e) ==
    { n \in {"opcode", "qtype", "qname", "serial", "transport"} :
        \/ n = "opcode" /\ e.match_opcode
        \/ n = "qtype" /\ e.match_qtype
        \/ n = "qname" /\ e.match_qname
        \/ n = "serial" /\ e.match_serial
        \/ n = "transport" /\ e.match_transport # transport_any }

\* the positions of the entries whose active predicates all hold for req
Eligible == { i \in 1..Len(entries) : ViolatedPredicates(entries[i], req.pkt, req.transport) = {} }

\* C1: find_match() returns the entry earliest in file order among those whose
\* active predicates all hold, and NULL when there is none; the list it scans
\* is the list of the file's ENTRY_BEGIN lines in their order.
C1_FirstMatchWins ==
    matched >= 0 =>
        /\ entries = rd.list
        /\ matched = 0 <=> Eligible = {}
        /\ matched > 0 => matched \in Eligible /\ \A j \in Eligible : matched <= j

\* an entry without active predicates is returned ahead of a later entry
\* that has an active predicate and matches too
C1_Witness ==
    /\ matched = 1
    /\ Len(entries) = 2
    /\ ActivePredicates(entries[1]) = {}
    /\ ActivePredicates(entries[2]) # {}
    /\ 2 \in Eligible

\* C2: the entry returned violates none of its active predicates, and every
\* entry passed over violates at least one predicate that is active in it.
C2_PredicateConjunction ==
    matched >= 0 =>
        \A i \in 1..Len(entries) :
            LET v == ViolatedPredicates(entries[i], req.pkt, req.transport) IN
            /\ v \subseteq ActivePredicates(entries[i])
            /\ i = matched => v = {}
            /\ (matched = 0 \/ i < matched) => v # {}
            /\ v # {} => matched # i

\* an entry with three active predicates is passed over for the transport
\* alone: its qtype and qname predicates hold
C2_Witness ==
    /\ matched = 2
    /\ ActivePredicates(entries[1]) = {"qtype", "qname", "transport"}
    /\ ViolatedPredicates(entries[1], req.pkt, req.transport) = {"transport"}

\* the message sent, or written after the prefix, in answer to req
Outbound == sent[Len(sent)].pkt

\* C3: the id of the outbound message is the id of the query when copy_id is
\* set and the id of the canned reply otherwise; every other field is that
\* of the canned reply.
C3_CopyId ==
    (matched > 0 /\ sent # <<>> /\ sent[Len(sent)].kind # "prefix") =>
        LET e == entries[matched] IN
        /\ Outbound.id = IF e.copy_id THEN req.pkt.id ELSE e.reply.id
        /\ [Outbound EXCEPT !.id = e.reply.id] = e.reply

C3_Witness ==
    /\ matched > 0
    /\ sent # <<>>
    /\ sent[Len(sent)].kind # "prefix"
    /\ entries[matched].copy_id
    /\ req.pkt.id # entries[matched].reply.id
    /\ Outbound.id = req.pkt.id

\* C4: a decoded query that matches no entry produces no output and the
\* loop goes on with the next request.
C4_NoMatchDropped ==
    (req.ok /\ matched = 0) => (sent = <<>> /\ pc = "select")

\* C5: a request that does not decode is dropped: find_match() is not called,
\* nothing is sent or written, the stream connection is closed, the counter
\* keeps its value and the loop goes on.
C5_UndecodableDropped ==
    [][ (req'.got /\ ~req'.ok /\ (served' # served \/ pc = "tcp_readpayload")) =>
            /\ matched' = -1
            /\ sent' = <<>>
            /\ count' = count
            /\ pc' = "select"
            /\ req'.transport = transport_tcp => conn' = "closed" ]_vars

\* the second request, on the stream port, does not decode: the counter
\* still counts the first request only
C5_Witness ==
    /\ served = 2
    /\ count = 1
    /\ req.got /\ ~req.ok
    /\ req.transport = transport_tcp
    /\ conn = "closed"
    /\ sent = <<>>

NeedsEntry(ln) == ~isendline(ln.kw) /\ ln.kw \notin {"ENTRY_BEGIN", "$ORIGIN", "$TTL"}

\* the loop of read_datafile() reads a line in this step
ReadsLine == pc = "read_datafile" /\ filepos' = filepos + 1

\* C6: with no entry open, a line that needs one ends the parse with a fatal
\* error, and the line number reported is the position of the line in the
\* file, empty and comment lines counted.
C6_ExpectedEntryBegin ==
    [][ (ReadsLine /\ rd.current = 0 /\ NeedsEntry(rd'.line)) =>
            /\ pc' = "exit"
            /\ rd'.err = "expected ENTRY_BEGIN"
            /\ rd'.errline = filepos' ]_vars

\* a record line on line 3, after two empty or comment lines
C6_Witness ==
    /\ pc = "exit"
    /\ rd.err = "expected ENTRY_BEGIN"
    /\ rd.errline = 3
    /\ rd.line.kw = "rr"
    /\ rd.list = <<>> /\ rd.origin = <<>> /\ rd.default_ttl = 0

\* C7: at most one entry is open, the one begun last: ENTRY_BEGIN with an
\* entry open is fatal, and a line other than ENTRY_BEGIN changes no entry
\* but the one begun last.
C7_OneOpenEntry ==
    [][ ReadsLine =>
            /\ (rd.current # 0 /\ rd'.line.kw = "ENTRY_BEGIN") =>
                    (pc' = "exit" /\ rd'.list = rd.list
                        /\ rd'.err = "previous entry does not ENTRY_END")
            /\ Len(rd'.list) - rd'.entry_num \in {0, 1}
            /\ rd'.current = (IF Len(rd'.list) - rd'.entry_num = 1 THEN Len(rd'.list) ELSE 0)
            /\ rd'.line.kw # "ENTRY_BEGIN" =>
                    /\ Len(rd'.list) = Len(rd.list)
                    /\ \A i \in 1..Len(rd.list) :
                          rd'.list[i] # rd.list[i] => (i = Len(rd.list) /\ i = rd.current) ]_vars

\* ENTRY_BEGIN inside the second entry of a file
C7_Witness ==
    /\ pc = "exit"
    /\ rd.err = "previous entry does not ENTRY_END"
    /\ rd.line.kw = "ENTRY_BEGIN"
    /\ Len(rd.list) = 2
    /\ rd.entry_num = 1

\* C8: right after ENTRY_BEGIN the target section is the question section.
C8_SectionReset ==
    (pc = "read_datafile" /\ rd.line.kw = "ENTRY_BEGIN") =>
        rd.add_section = LDNS_SECTION_QUESTION

\* the records of the four sections of a message
Sections(p) == <<p.question, p.answer, p.authority, p.additional>>

IsPrefix(a, b) == Len(a) <= Len(b) /\ SubSeq(b, 1, Len(a)) = a

\* the record that a record line appended in this step
Appended ==
    LET new == Sections(rd'.list[rd.current].reply)[rd.add_section + 1]
    IN new[Len(new)]

\* C9: only a $TTL line changes the default TTL and only a $ORIGIN line the
\* origin; a record line takes the values current when it is read, in
\* whatever entry they were set; no line changes a record stored before it.
C9_FileScopedTtlOrigin ==
    [][ ReadsLine =>
            /\ rd'.default_ttl # rd.default_ttl => rd'.line.kw = "$TTL"
            /\ rd'.origin # rd.origin => rd'.line.kw = "$ORIGIN"
            /\ \A i \in 1..Len(rd.list) : \A k \in 1..4 :
                    IsPrefix(Sections(rd.list[i].reply)[k], Sections(rd'.list[i].reply)[k])
            /\ (rd'.line.kw = "rr" /\ rd'.err = "" /\ rd.current # 0) =>
                    /\ rd'.line.rr.ttl < 0 => Appended.ttl = rd.default_ttl
                    /\ (~rd'.line.rr.absolute /\ rd'.line.rr.owner # <<>>) =>
                            Appended.owner = rd'.line.rr.owner \o rd.origin ]_vars

\* a $TTL line inside the first entry: the record before it keeps TTL 0, the
\* record of the second entry gets 300
C9_Witness ==
    /\ Len(rd.list) = 2
    /\ rd.list[1].reply.question # <<>>
    /\ rd.list[1].reply.question[1].ttl = 0
    /\ rd.list[2].reply.question # <<>>
    /\ rd.list[2].reply.question[1].ttl = 300
    /\ rd.entry_num = 1

\* C11: serving requests leaves the entry list as read_datafile() returned
\* it: the same entries in the same order, with the same predicates, copy_id
\* flags and canned replies, the id of a reply included.
C11_EntriesReadOnly ==
    [][ (pc # "read_datafile") => (entries' = entries /\ entries' = rd'.list) ]_vars

\* a second request has been answered by an entry with copy_id, whose canned
\* reply still has the id it was loaded with
C11_Witness ==
    /\ served = 2
    /\ count = 2
    /\ matched > 0
    /\ sent # <<>>
    /\ entries[matched].copy_id
    /\ entries[matched].reply.id = 0
    /\ req.pkt.id # 0

\* C12: when the prefix and the encoded response are both written to the
\* stream, the prefix is the byte length of the response.
C12_PrefixIsLength ==
    (Len(sent) = 2 /\ sent[1].kind = "prefix" /\ sent[2].kind = "answer") =>
        sent[1].len = sent[2].len

\* C14: when the peer closes the stream before the prefix or the payload is
\* complete, the handler still finishes: the connection is closed and the
\* loop is back at the readiness wait.
C14_HandlerFinishes == (conn = "eof") ~> (conn = "closed" /\ pc = "select")

\* C15: after a failed read on the stream the request is dropped: the bytes
\* of the buffer are not handed to handle_query() and nothing is written.
C15_ReadFailureDropped ==
    (req.transport = transport_tcp /\ req.rderr) => (~req.got /\ sent = <<>>)

\* C16: a stream request is rejected exactly when its declared length
\* exceeds INBUF_SIZE; otherwise its payload is read and handed on.
C16_RejectAboveCapacity ==
    (req.transport = transport_tcp /\ req.tcplen > 0 /\ ~req.rderr) =>
        /\ req.tcplen > INBUF_SIZE => (conn = "closed" /\ ~req.got /\ sent = <<>>)
        /\ req.tcplen <= INBUF_SIZE => (pc \notin {"select", "crash"} \/ req.got)

\* C13: a fatal error of the data file ends the process before any socket is
\* created, and no socket exists while the file is parsed.
C13_FatalBeforeSockets ==
    /\ rd.err # "" => (pc = "exit" /\ socks = {})
    /\ pc = "read_datafile" => socks = {}

\* a line of the file was rejected at its line number, or the file not opened
C13_Witness ==
    /\ pc = "exit"
    /\ rd.err = "bad record"
    /\ rd.errline = 3
    /\ rd.list # <<>>
    /\ socks = {}

\* C17: after a $TTL line the default TTL for the records that follow is the
\* number written on the line, and after MATCH serial=n the serial of the
\* entry is n.
C17_NumbersAsWritten ==
    /\ (rd.line.kw = "$TTL" /\ rd.err = "") =>
            <<0, rd.default_ttl>> = DecimalValue(rd.line.num)
    /\ (rd.line.kw = "MATCH" /\ rd.err = "" /\ rd.line.toks # <<>>
            /\ rd.line.toks[Len(rd.line.toks)].kw = "serial") =>
            rd.list[rd.current].ixfr_soa_serial =
                DecimalValue(rd.line.toks[Len(rd.line.toks)].num)

\* the keyword of the last token of toks that is in the set S, "" if none
RECURSIVE LastOf(_, _)
LastOf(toks, S) ==
    IF toks = <<>> THEN ""
    ELSE IF toks[Len(toks)].kw \in S THEN toks[Len(toks)].kw
    ELSE LastOf(SubSeq(toks, 1, Len(toks) - 1), S)

\* the interpreter of the directive k
Interpret(k, toks, e) ==
    IF k = "MATCH" THEN matchline(toks, e)
    ELSE IF k = "REPLY" THEN replyline(toks, e)
    ELSE adjustline(toks, e)

\* C18: a MATCH, REPLY or ADJUST line applied twice, or with its keywords
\* repeated, leaves the entry as one application does; of the transports,
\* serials, opcodes and response codes a line names, the last is kept.
C18_Idempotent ==
    [][ (ReadsLine /\ rd'.line.kw \in {"MATCH", "REPLY", "ADJUST"} /\ rd'.err = "") =>
          LET k == rd'.line.kw
              toks == rd'.line.toks
              e0 == rd.list[rd.current]
              e1 == rd'.list[rd'.current]
              tr == LastOf(toks, {"UDP", "TCP"})
              op == LastOf(toks, DOMAIN ReplyOpcodes)
              rc == LastOf(toks, DOMAIN ReplyRcodes)
          IN  /\ Interpret(k, toks, e1) = [e |-> e1, err |-> FALSE]
              /\ Interpret(k, toks \o toks, e0) = [e |-> e1, err |-> FALSE]
              /\ (k = "MATCH" /\ tr # "") =>
                    e1.match_transport = (IF tr = "UDP" THEN transport_udp ELSE transport_tcp)
              /\ (k = "MATCH" /\ toks[Len(toks)].kw = "serial") =>
                    e1.ixfr_soa_serial = strtol_uint32(toks[Len(toks)].num)
              /\ (k = "REPLY" /\ op # "") => e1.reply.opcode = ReplyOpcodes[op]
              /\ (k = "REPLY" /\ rc # "") => e1.reply.rcode = ReplyRcodes[rc] ]_vars

\* an entry after MATCH UDP qname TCP and the REPLY line with two opcodes
C18_Witness ==
    /\ rd.err = ""
    /\ rd.current # 0
    /\ rd.line.kw = "REPLY"
    /\ Len(rd.line.toks) = 6
    /\ rd.list[rd.current].match_transport = transport_tcp
    /\ rd.list[rd.current].reply.opcode = LDNS_PACKET_NOTIFY
    /\ rd.list[rd.current].reply.rcode = 2

\* C20: without a fatal error the list gets one entry per ENTRY_BEGIN line, at
\* its tail, the count goes up by one per ENTRY_END line, and what is
\* returned is the list, longer than the count by one exactly when an entry
\* is still open at the end of the file.
C20_ListAndCount ==
    [][ /\ (ReadsLine /\ rd'.err = "") =>
            /\ rd'.list = IF rd'.line.kw = "ENTRY_BEGIN" THEN Append(rd.list, new_entry)
                          ELSE IF rd.current = 0 THEN rd.list
                          ELSE [rd.list EXCEPT ![rd.current] = rd'.list[rd.current]]
            /\ rd'.entry_num = rd.entry_num + (IF rd'.line.kw = "ENTRY_END" THEN 1 ELSE 0)
        /\ (pc = "read_datafile" /\ pc' = "socket") =>
            /\ entries' = rd.list
            /\ Len(entries') - rd.entry_num = (IF rd.current # 0 THEN 1 ELSE 0) ]_vars

\* the file ended in its second entry
C20_Witness ==
    /\ pc = "socket"
    /\ Len(entries) = 2
    /\ rd.entry_num = 1
    /\ rd.current = 2
    /\ entries[1].match_opcode
    /\ ~entries[2].match_opcode

\* C19: a message without a question has qtype 0: a query without a question
\* passes the qtype predicate of an entry whose reply has no question and
\* fails it when the reply's question has a type other than 0; the qname
\* predicate fails when the query or the reply has no question, also when
\* both have none.
C19_MissingQuestion ==
    matched >= 0 =>
        \A i \in 1..Len(entries) :
            LET e == entries[i]
                q == req.pkt
            IN  /\ (q.question = <<>> /\ e.reply.question = <<>>
                        /\ ActivePredicates(e) = {"qtype"}) =>
                        (matched > 0 /\ matched <= i)
                /\ (e.match_qtype /\ q.question = <<>> /\ e.reply.question # <<>>
                        /\ e.reply.question[1].type # 0) => matched # i
                /\ (e.match_qname /\ (q.question = <<>> \/ e.reply.question = <<>>)) =>
                        matched # i

\* a query without a question passes over an entry with MATCH qname and no
\* question and is answered from an entry with MATCH qtype and no question
C19_Witness ==
    /\ matched = 2
    /\ req.pkt.question = <<>>
    /\ ActivePredicates(entries[1]) = {"qname"}
    /\ entries[1].reply.question = <<>>
    /\ ActivePredicates(entries[2]) = {"qtype"}
    /\ entries[2].reply.question = <<>>

====
